---------------------------- MODULE Spec2Model ----------------------------
(***************************************************************************)
(* The 4CAT job queue entity (common/lib/job.py): Job objects held by      *)
(* independent worker processes, each a cache of one row of the shared     *)
(* "jobs" table, and the lifecycle calls claim / finish / release that     *)
(* turn into single UPDATE or DELETE statements on that table.             *)
(***************************************************************************)
EXTENDS Integers, FiniteSets, Sequences, TLC

\* ------------------------------------------------------------------ bounds
MaxNow == 4
MaxAttempts == 1

Workers == {1, 2, 3}
JobIds == {1}
Intervals == {0, 2}
Times == 1..MaxNow

\* ---------------------------------------------------------- instance ids
Wildcard == "*"
Instances == {"a", "b"}

\* get_instance_id() of the process worker w runs in: odd workers run in
\* deployment "a", even workers in deployment "b"
get_instance_id(w) == IF w % 2 = 1 THEN "a" ELSE "b"

\* ------------------------------------------------------------ option type
\* Python's None and a given value v
None == <<>>
Some(v) == <<v>>

\* -------------------------------------------------------- the jobs table
NoRow == [id |-> 0]

VARIABLES
    rows,       \* jobs table: job id -> row, or NoRow once deleted
    now,        \* int(time.time()), whole seconds
    obj,        \* the Job object each worker holds, or NoJob
    outcome     \* how each worker's latest call ended

vars == <<rows, now, obj, outcome>>

\* db.fetchone: the row with this id, restricted to the given instances
\* when the filter is non-empty
db_fetchone(table, job_id, instance_filter) ==
    IF /\ table[job_id] # NoRow
       /\ instance_filter # {} => table[job_id].instance \in instance_filter
    THEN table[job_id]
    ELSE NoRow

\* does a row satisfy every column = value pair of a WHERE clause
db_matches(row, where) ==
    /\ row # NoRow
    /\ \A f \in DOMAIN where : row[f] = where[f]

\* db.update(table, data, where): the table afterwards
db_update(table, data, where) ==
    [j \in DOMAIN table |->
        IF db_matches(table[j], where)
        THEN [f \in DOMAIN table[j] |->
                 IF f \in DOMAIN data THEN data[f] ELSE table[j][f]]
        ELSE table[j]]

\* db.update's return value: the number of rows it changed
db_rowcount(table, where) ==
    Cardinality({j \in DOMAIN table : db_matches(table[j], where)})

\* db.delete(table, where): the table afterwards
db_delete(table, where) ==
    [j \in DOMAIN table |->
        IF db_matches(table[j], where) THEN NoRow ELSE table[j]]

\* ----------------------------------------------------------- Job objects
NoJob == [loaded |-> FALSE]

\* Job.__init__
Job(data) ==
    [loaded |-> TRUE,
     data |-> data,
     is_finished |-> FALSE,
     is_claimed |-> (data.timestamp_claimed # 0 /\ data.timestamp_claimed > 0)]

\* ----------------------------------------------------------------- Init
NewRow(j, interval, instance) ==
    [id |-> j, interval |-> interval, timestamp_claimed |-> 0,
     timestamp_lastclaimed |-> 0, timestamp_after |-> 0, attempts |-> 0,
     instance |-> instance]

\* rows as a producer inserts them: unclaimed and for any instance (a row
\* becomes bound to an instance when that instance claims it)
Init ==
    /\ \E iv \in [JobIds -> Intervals] :
          rows = [j \in JobIds |-> NewRow(j, iv[j], Wildcard)]
    /\ now \in Times
    /\ obj = [w \in Workers |-> NoJob]
    /\ outcome = [w \in Workers |-> "none"]

\* ------------------------------------------------------------ wall clock
\* a second passes
Tick ==
    /\ now < MaxNow
    /\ now' = now + 1
    /\ UNCHANGED <<rows, obj, outcome>>

\* --------------------------------------------------------------- lookup
\* instance_filter without the wildcard
instance_filter_own(w, own_instance_only) ==
    IF own_instance_only THEN {get_instance_id(w)} ELSE {}

\* the instance filter of the lookups
instance_filter(w, own_instance_only) ==
    IF own_instance_only THEN {Wildcard, get_instance_id(w)} ELSE {}

\* Job.get_by_ID called by worker w, which keeps the Job it returns
get_by_ID(w, job_id, own_instance_only) ==
    LET data == db_fetchone(rows, job_id, instance_filter(w, own_instance_only))
    IN  /\ IF data = NoRow
           THEN /\ outcome' = [outcome EXCEPT ![w] = "JobNotFoundException"]
                /\ UNCHANGED obj
           ELSE /\ obj' = [obj EXCEPT ![w] = Job(data)]
                /\ outcome' = [outcome EXCEPT ![w] = "found"]
        /\ UNCHANGED <<rows, now>>

\* the jobtype and remote_id columns: written when the row is inserted,
\* unique as a pair, and never changed or compared by the Job class outside
\* the SELECT of get_by_remote_ID, so they are kept apart from the row records
jobtype_of(j) == "search"
remote_id_of(j) == IF j = 1 THEN "r1" ELSE "r2"

\* the keys the callers look up
JobTypes == {"*", "search", "export"}
RemoteIds == {"r1", "r2"}

\* the ids of the rows the SELECT of get_by_remote_ID matches
remote_matches(table, remote_id, jobtype, filter) ==
    {j \in DOMAIN table :
        /\ table[j] # NoRow
        /\ remote_id_of(j) = remote_id
        /\ jobtype # "*" => jobtype_of(j) = jobtype
        /\ filter # {} => table[j].instance \in filter}

\* Job.get_by_remote_ID called by worker w, which keeps the Job it
\* returns; fetchone returns any one of the rows that match
get_by_remote_ID(w, remote_id, jobtype, own_instance_only) ==
    LET matches == remote_matches(rows, remote_id, jobtype,
                                  instance_filter(w, own_instance_only))
    IN  /\ IF matches = {}
           THEN /\ outcome' = [outcome EXCEPT ![w] = "JobNotFoundException"]
                /\ UNCHANGED obj
           ELSE /\ \E j \in matches : obj' = [obj EXCEPT ![w] = Job(rows[j])]
                /\ outcome' = [outcome EXCEPT ![w] = "found"]
        /\ UNCHANGED <<rows, now>>

\* ---------------------------------------------------------------- claim
\* claim_time without the snapping
claim_time_unsnapped(T, interval) == T

\* the claim time: the current second, snapped down to the interval
claim_time(T, interval) ==
    IF interval = 0 THEN T ELSE (T \div interval) * interval

\* claim_data without timestamp_lastclaimed
claim_data_no_lastclaimed(ct, instance) ==
    [timestamp_claimed |-> ct, instance |-> instance]

\* the columns claim() writes
claim_data(ct, instance) ==
    [timestamp_claimed |-> ct, timestamp_lastclaimed |-> ct,
     instance |-> instance]

\* claim_where without the id
claim_where_any(data) == [timestamp_claimed |-> 0]

\* the WHERE clause of claim()'s update
claim_where(data) == [id |-> data.id, timestamp_claimed |-> 0]

\* claim_object marking the object claimed before looking at `updated`
claim_object_eager(o, updated, ct) ==
    IF updated = 0
    THEN [o EXCEPT !.is_claimed = TRUE]
    ELSE [o EXCEPT !.data.timestamp_claimed = ct,
                   !.data.timestamp_lastclaimed = ct,
                   !.is_claimed = TRUE]

\* the Job object after the update reported `updated` rows
claim_object(o, updated, ct) ==
    IF updated = 0
    THEN o
    ELSE [o EXCEPT !.data.timestamp_claimed = ct,
                   !.data.timestamp_lastclaimed = ct,
                   !.is_claimed = TRUE]

\* claim_outcome that never raises
claim_outcome_lenient(updated) == "claimed"

\* how claim() ends when the update reported `updated` rows
claim_outcome(updated) ==
    IF updated = 0 THEN "JobClaimedException" ELSE "claimed"

\* Job.claim on the Job object of worker w
claim(w) ==
    LET o == obj[w]
        ct == claim_time(now, o.data.interval)
        where == claim_where(o.data)
        updated == db_rowcount(rows, where)
    IN  /\ o # NoJob
        /\ rows' = db_update(rows, claim_data(ct, get_instance_id(w)), where)
        /\ obj' = [obj EXCEPT ![w] = claim_object(o, updated, ct)]
        /\ outcome' = [outcome EXCEPT ![w] = claim_outcome(updated)]
        /\ UNCHANGED now

\* --------------------------------------------------------------- finish
\* finish_deletes with `and` for `or`
finish_deletes_and(interval, delete) == interval = 0 /\ delete

\* does finish() delete the row
finish_deletes(interval, delete) == interval = 0 \/ delete

\* finish_data without the attempts
finish_data_keeps_attempts == [timestamp_claimed |-> 0]

\* the columns finish() resets on a recurring job
finish_data == [timestamp_claimed |-> 0, attempts |-> 0]

\* Job.finish on the Job object of worker w
finish(w, delete) ==
    LET o == obj[w]
        where == [id |-> o.data.id]
    IN  /\ o # NoJob
        /\ rows' = IF finish_deletes(o.data.interval, delete)
                   THEN db_delete(rows, where)
                   ELSE db_update(rows, finish_data, where)
        /\ obj' = [obj EXCEPT ![w].is_finished = TRUE]
        /\ outcome' = [outcome EXCEPT ![w] = "finished"]
        /\ UNCHANGED now

\* -------------------------------------------------------------- release
\* the defaults of release()'s parameters
release_defaults == [delay |-> 0, claim_after |-> Some(0)]

\* release_update testing claim_after for truth instead of `is not None`
release_update_truthy(data, T, delay, claim_after) ==
    LET update == [timestamp_claimed |-> 0, attempts |-> data.attempts + 1]
    IN  IF delay > 0
        THEN [f \in DOMAIN update \cup {"timestamp_after"} |->
                 IF f = "timestamp_after" THEN T + delay ELSE update[f]]
        ELSE IF claim_after # None /\ claim_after[1] # 0
        THEN [f \in DOMAIN update \cup {"timestamp_after"} |->
                 IF f = "timestamp_after" THEN claim_after[1] ELSE update[f]]
        ELSE update

\* the columns release() writes
release_update(data, T, delay, claim_after) ==
    LET update == [timestamp_claimed |-> 0, attempts |-> data.attempts + 1]
    IN  IF delay > 0
        THEN [f \in DOMAIN update \cup {"timestamp_after"} |->
                 IF f = "timestamp_after" THEN T + delay ELSE update[f]]
        ELSE IF claim_after # None
        THEN [f \in DOMAIN update \cup {"timestamp_after"} |->
                 IF f = "timestamp_after" THEN claim_after[1] ELSE update[f]]
        ELSE update

\* Job.release on the Job object of worker w
release(w, delay, claim_after) ==
    LET o == obj[w]
        where == [id |-> o.data.id]
    IN  /\ o # NoJob
        /\ o.data.attempts < MaxAttempts
        /\ rows' = db_update(rows, release_update(o.data, now, delay, claim_after),
                             where)
        /\ obj' = [obj EXCEPT ![w].is_claimed = FALSE]
        /\ outcome' = [outcome EXCEPT ![w] = "released"]
        /\ UNCHANGED now

\* --------------------------------------------------------- is_claimable
\* time.time() is a float: second T = int(time.time()) and a fraction of a
\* second, of which only `sub` (the fraction is not zero) matters when it
\* is compared with whole seconds.  n < time.time() for a whole number n
earlier(n, T, sub) == n < T \/ (n = T /\ sub)

\* claimable only for a job that was never claimed
claimable_never_claimed(o, T, sub) ==
    /\ ~o.is_claimed
    /\ ~o.is_finished
    /\ o.data.timestamp_lastclaimed = 0

\* claimable without the interval
claimable_any_interval(o, T, sub) ==
    /\ ~o.is_claimed
    /\ ~o.is_finished
    /\ earlier(o.data.timestamp_lastclaimed, T, sub)

\* claimable comparing with <= for <
claimable_inclusive(o, T, sub) ==
    /\ ~o.is_claimed
    /\ ~o.is_finished
    /\ o.data.timestamp_lastclaimed + o.data.interval <= T

\* the value of is_claimable():
\* timestamp_lastclaimed < time.time() - interval
claimable(o, T, sub) ==
    /\ ~o.is_claimed
    /\ ~o.is_finished
    /\ earlier(o.data.timestamp_lastclaimed + o.data.interval, T, sub)

\* Job.is_claimable on the Job object of worker w
is_claimable(w, sub) ==
    LET o == obj[w]
    IN  /\ o # NoJob
        /\ outcome' = [outcome EXCEPT ![w] =
                          IF claimable(o, now, sub) THEN "claimable"
                                                    ELSE "not claimable"]
        /\ UNCHANGED <<rows, now, obj>>

\* the arguments the callers pass
Delays == {-1, 0, 1}
ClaimAfters == {None, Some(0), Some(2)}

\* ------------------------------------------------------- specifications
\* the workers of the two-worker specifications, and the lone worker
Actors == {1, 2}
Solo == {1}

\* two workers that look the job up, claim it and finish it (deleting or
\* not), in any order and at any time
Next ==
    \/ Tick
    \/ \E w \in Actors, j \in JobIds, own \in BOOLEAN : get_by_ID(w, j, own)
    \/ \E w \in Actors : claim(w)
    \/ \E w \in Actors, delete \in BOOLEAN : finish(w, delete)

Spec == Init /\ [][Next]_vars

\* one worker that makes every call of the class with every argument, in
\* any order and at any time
NextSolo ==
    \/ Tick
    \/ \E w \in Solo, j \in JobIds, own \in BOOLEAN : get_by_ID(w, j, own)
    \/ \E w \in Solo : claim(w)
    \/ \E w \in Solo, delete \in BOOLEAN : finish(w, delete)
    \/ \E w \in Solo, delay \in Delays, claim_after \in ClaimAfters :
          release(w, delay, claim_after)

SpecSolo == Init /\ [][NextSolo]_vars

\* the race of claim(): every worker loads the row once and calls claim()
\* once on the Job object it got
RaceLoad ==
    \E w \in Workers, j \in JobIds, own \in BOOLEAN :
        obj[w] = NoJob /\ get_by_ID(w, j, own)

RaceClaim == \E w \in Workers : outcome[w] = "found" /\ claim(w)

NextRace == Tick \/ RaceLoad \/ RaceClaim

SpecRace == Init /\ [][NextRace]_vars

\* two workers that keep the caller contract: finish() and release() only
\* on a job the worker has claimed and not yet finished or released, and no
\* other call while it holds the claim
OwnedLoad ==
    \E w \in Actors, j \in JobIds, own \in BOOLEAN :
        outcome[w] # "claimed" /\ get_by_ID(w, j, own)

OwnedClaim == \E w \in Actors : outcome[w] # "claimed" /\ claim(w)

OwnedFinish ==
    \E w \in Actors, delete \in BOOLEAN :
        outcome[w] = "claimed" /\ finish(w, delete)

OwnedRelease ==
    \E w \in Actors :
        /\ outcome[w] = "claimed"
        /\ release(w, release_defaults.delay, release_defaults.claim_after)

NextOwned == Tick \/ OwnedLoad \/ OwnedClaim \/ OwnedFinish \/ OwnedRelease

SpecOwned == Init /\ [][NextOwned]_vars

\* one worker that keeps the caller contract and retries: it releases the
\* jobs it has claimed, with any arguments, and claims them again
RetryLoad ==
    \E w \in Solo, j \in JobIds, own \in BOOLEAN :
        outcome[w] # "claimed" /\ get_by_ID(w, j, own)

RetryClaim == \E w \in Solo : outcome[w] # "claimed" /\ claim(w)

RetryRelease ==
    \E w \in Solo, delay \in Delays, claim_after \in ClaimAfters :
        outcome[w] = "claimed" /\ release(w, delay, claim_after)

NextRetry == Tick \/ RetryLoad \/ RetryClaim \/ RetryRelease

SpecRetry == Init /\ [][NextRetry]_vars

\* one worker that makes every call of the class, is_claimable() included,
\* in any order and at any time
NextClaimable ==
    \/ Tick
    \/ \E w \in Solo, j \in JobIds, own \in BOOLEAN : get_by_ID(w, j, own)
    \/ \E w \in Solo, sub \in BOOLEAN : is_claimable(w, sub)
    \/ \E w \in Solo : claim(w)
    \/ \E w \in Solo, delete \in BOOLEAN : finish(w, delete)
    \/ \E w \in Solo, delay \in Delays, claim_after \in ClaimAfters :
          release(w, delay, claim_after)

SpecClaimable == Init /\ [][NextClaimable]_vars

\* one worker that keeps the caller contract, retries, and asks
\* is_claimable() of the Job objects it holds no claim on
DelayedAsk ==
    \E w \in Solo, sub \in BOOLEAN :
        outcome[w] # "claimed" /\ is_claimable(w, sub)

NextDelayed == Tick \/ RetryLoad \/ DelayedAsk \/ RetryClaim \/ RetryRelease

SpecDelayed == Init /\ [][NextDelayed]_vars

\* two workers that look the job up by id or by remote id and job type,
\* claim it and finish it, in any order, within one second
NextLookup ==
    \/ \E w \in Actors, j \in JobIds, own \in BOOLEAN : get_by_ID(w, j, own)
    \/ \E w \in Actors, remote_id \in RemoteIds, jobtype \in JobTypes,
          own \in BOOLEAN : get_by_remote_ID(w, remote_id, jobtype, own)
    \/ \E w \in Actors : claim(w)
    \/ \E w \in Actors, delete \in BOOLEAN : finish(w, delete)

SpecLookup == Init /\ [][NextLookup]_vars

\* a table of two rows, and one worker that makes every call of the class
\* on either row, in any order, within one second (the first, in which the
\* claim time of a recurring job is 0, or the last); it leaves the optional
\* arguments of the lookups and of release() at their defaults
PairIds == {1, 2}

InitPair ==
    /\ \E iv \in [PairIds -> Intervals] :
          rows = [j \in PairIds |-> NewRow(j, iv[j], Wildcard)]
    /\ now \in {1, MaxNow}
    /\ obj = [w \in Workers |-> NoJob]
    /\ outcome = [w \in Workers |-> "none"]

NextPair ==
    \/ \E w \in Solo, j \in PairIds : get_by_ID(w, j, TRUE)
    \/ \E w \in Solo, remote_id \in RemoteIds :
          get_by_remote_ID(w, remote_id, "*", TRUE)
    \/ \E w \in Solo, sub \in BOOLEAN : is_claimable(w, sub)
    \/ \E w \in Solo : claim(w)
    \/ \E w \in Solo, delete \in BOOLEAN : finish(w, delete)
    \/ \E w \in Solo :
          release(w, release_defaults.delay, release_defaults.claim_after)

SpecPair == InitPair /\ [][NextPair]_vars

\* a recurring job, and two workers that gate claim() on is_claimable():
\* a worker calls claim() only on a Job object for which is_claimable() has
\* just returned true, finishes the jobs it has claimed, and makes no other
\* call while it holds a claim
RecurringIntervals == {1, 2}

InitRecurring ==
    /\ \E iv \in [JobIds -> RecurringIntervals] :
          rows = [j \in JobIds |-> NewRow(j, iv[j], Wildcard)]
    /\ now \in Times
    /\ obj = [w \in Workers |-> NoJob]
    /\ outcome = [w \in Workers |-> "none"]

GatedLoad ==
    \E w \in Actors, j \in JobIds, own \in BOOLEAN :
        outcome[w] # "claimed" /\ get_by_ID(w, j, own)

GatedAsk ==
    \E w \in Actors, sub \in BOOLEAN :
        outcome[w] # "claimed" /\ is_claimable(w, sub)

GatedClaim == \E w \in Actors : outcome[w] = "claimable" /\ claim(w)

GatedFinish == \E w \in Actors : outcome[w] = "claimed" /\ finish(w, FALSE)

NextGated == Tick \/ GatedLoad \/ GatedAsk \/ GatedClaim \/ GatedFinish

SpecGated == InitRecurring /\ [][NextGated]_vars

\* two workers that look the job up, claim it, finish it and release it,
\* claimed by them or not, in any order, within one second: the first
\* second, in which the claim time of a recurring job is 0, or the last;
\* release() is called with its default arguments
InitStale == Init /\ now \in {1, MaxNow}

NextStale ==
    \/ \E w \in Actors, j \in JobIds, own \in BOOLEAN : get_by_ID(w, j, own)
    \/ \E w \in Actors : claim(w)
    \/ \E w \in Actors, delete \in BOOLEAN : finish(w, delete)
    \/ \E w \in Actors :
          release(w, release_defaults.delay, release_defaults.claim_after)

SpecStale == InitStale /\ [][NextStale]_vars

\* ---------------------------------------------------------------- claims
\* worker w calls claim() and its UPDATE matches no row
ClaimFails(w) ==
    /\ obj[w] # NoJob
    /\ db_rowcount(rows, claim_where(obj[w].data)) = 0
    /\ claim(w)

\* worker w calls claim() and its UPDATE matches the row
ClaimSucceeds(w) ==
    /\ obj[w] # NoJob
    /\ db_rowcount(rows, claim_where(obj[w].data)) # 0
    /\ claim(w)

\* C1: when every worker, holding its own Job object for an unclaimed row,
\* has called claim(), exactly one of the calls has succeeded and all the
\* others have raised JobClaimedException
C1_ExactlyOneClaimant ==
    (\A w \in Workers : outcome[w] \in {"claimed", "JobClaimedException"})
        => Cardinality({w \in Workers : outcome[w] = "claimed"}) = 1

\* the workers between their successful claim() of job j and their finish()
\* or release()
Holders(j) ==
    {w \in Workers : outcome[w] = "claimed" /\ obj[w].data.id = j}

\* C2: when finish() and release() are called only by the worker holding
\* the claim, at most one worker at a time is between its successful
\* claim() and its finish() or release() of a job, and the row is claimed
\* (timestamp_claimed # 0) all that time
C2_ExclusiveOwnership ==
    \A j \in JobIds :
        /\ Cardinality(Holders(j)) <= 1
        /\ Holders(j) # {} =>
              rows[j] # NoRow /\ rows[j].timestamp_claimed # 0

\* C3: a claim() whose update changes no row raises JobClaimedException and
\* leaves the table and the Job object (is_claimed, is_finished, data) as
\* they were
C3_FailedClaimChangesNothing ==
    [][\A w \in Workers :
          ClaimFails(w) =>
              /\ outcome'[w] = "JobClaimedException"
              /\ rows' = rows
              /\ obj'[w] = obj[w]]_vars

\* a claim() has failed because another worker holds the row
C3_Witness ==
    \E w \in Workers :
        /\ outcome[w] = "JobClaimedException"
        /\ ~obj[w].is_claimed
        /\ rows[obj[w].data.id] # NoRow
        /\ rows[obj[w].data.id].timestamp_claimed # 0

\* the table and the timestamps of the Job object after a successful
\* claim() by worker w
ClaimedState(w) ==
    LET ct == claim_time(now, obj[w].data.interval)
        row == rows'[obj[w].data.id]
    IN  /\ row.timestamp_claimed = ct
        /\ row.timestamp_lastclaimed = ct
        /\ row.instance = get_instance_id(w)
        /\ obj'[w].is_claimed
        /\ obj'[w].data.timestamp_claimed = ct
        /\ obj'[w].data.timestamp_lastclaimed = ct

\* C4 as stated: after a successful claim() the row holds the claim time in
\* both timestamps and the claimant's instance, and the Job object is
\* claimed and holds the same timestamps and the same claimant in its data
C4_ClaimantInMemory ==
    [][\A w \in Workers :
          ClaimSucceeds(w) =>
              /\ ClaimedState(w)
              /\ obj'[w].data.instance = get_instance_id(w)]_vars

\* C4 amended: after a successful claim() the row holds the claim time in
\* both timestamps and the claimant's instance, and the Job object is
\* claimed and holds the same timestamps; the instance in its data is the
\* one it was loaded with
C4_ClaimPostcondition ==
    [][\A w \in Workers :
          ClaimSucceeds(w) =>
              /\ ClaimedState(w)
              /\ obj'[w].data.instance = obj[w].data.instance]_vars

\* a Job object loaded from a wildcard row has claimed it: the row names
\* the claimant, the object's data still holds the wildcard
C4_Witness ==
    \E w \in Workers :
        /\ outcome[w] = "claimed"
        /\ obj[w].is_claimed
        /\ obj[w].data.instance = Wildcard
        /\ rows[obj[w].data.id] # NoRow
        /\ rows[obj[w].data.id].instance = get_instance_id(w)
        /\ rows[obj[w].data.id].timestamp_claimed = obj[w].data.timestamp_claimed
        /\ obj[w].data.timestamp_claimed > 0

\* C5: a successful claim() at second T writes T when interval = 0, and
\* otherwise the multiple v of interval with v <= T < v + interval
C5_IntervalSnapping ==
    [][\A w \in Workers :
          ClaimSucceeds(w) =>
              LET T == now
                  interval == obj[w].data.interval
                  v == rows'[obj[w].data.id].timestamp_claimed
              IN  /\ interval = 0 => v = T
                  /\ interval > 0 =>
                        /\ \E k \in 0..T : v = k * interval
                        /\ T - interval < v
                        /\ v <= T]_vars

\* a recurring job was claimed at a second that is no multiple of its
\* interval, and holds the multiple below it
C5_Witness ==
    \E w \in Workers :
        /\ outcome[w] = "claimed"
        /\ obj[w].data.interval > 0
        /\ obj[w].data.timestamp_claimed > 0
        /\ obj[w].data.timestamp_claimed < now
        /\ now < obj[w].data.timestamp_claimed + obj[w].data.interval
        /\ rows[obj[w].data.id].timestamp_claimed = obj[w].data.timestamp_claimed

\* what get_by_ID would find for job j, for every caller and either value
\* of own_instance_only
Lookups(table, j) ==
    [w \in Workers, own \in BOOLEAN |->
        db_fetchone(table, j, instance_filter(w, own)) # NoRow]

\* C6: after finish() on a job with interval = 0, or finish(delete=True)
\* on any job, the row is gone and stays gone: get_by_ID raises
\* JobNotFoundException for every instance and either own_instance_only
C6_OneShotFinishDeletes ==
    [][/\ \A w \in Workers, delete \in BOOLEAN :
             (finish(w, delete) /\ (obj[w].data.interval = 0 \/ delete)) =>
                 \A i \in Workers, own \in BOOLEAN :
                     ~Lookups(rows', obj[w].data.id)[i, own]
       /\ \A j \in JobIds : rows[j] = NoRow => rows'[j] = NoRow]_vars

\* a worker has finished a recurring job with delete=True, or a one-shot
\* job, and no lookup finds the row
C6_Witness ==
    \E w \in Workers :
        /\ outcome[w] = "finished"
        /\ obj[w].is_finished
        /\ rows[obj[w].data.id] = NoRow
        /\ \A i \in Workers, own \in BOOLEAN :
              ~Lookups(rows, obj[w].data.id)[i, own]

\* C7: after finish() without delete on a job with interval > 0 whose row
\* exists, the row still exists with timestamp_claimed = 0 and
\* attempts = 0, and every get_by_ID that found it before finds it after
C7_RecurringFinishResets ==
    [][\A w \in Workers :
          LET j == obj[w].data.id
          IN  (finish(w, FALSE) /\ obj[w].data.interval > 0 /\ rows[j] # NoRow) =>
                  /\ rows'[j] # NoRow
                  /\ rows'[j].timestamp_claimed = 0
                  /\ rows'[j].attempts = 0
                  /\ Lookups(rows', j)[w, FALSE]
                  /\ \A i \in Workers, own \in BOOLEAN :
                        Lookups(rows, j)[i, own] => Lookups(rows', j)[i, own]]_vars

\* a worker has finished a recurring job it had loaded with attempts > 0
\* and claimed: the row is there, unclaimed, with attempts = 0
C7_Witness ==
    \E w \in Workers :
        /\ outcome[w] = "finished"
        /\ obj[w].data.interval > 0
        /\ obj[w].data.attempts > 0
        /\ obj[w].data.timestamp_claimed > 0
        /\ rows[obj[w].data.id] # NoRow
        /\ rows[obj[w].data.id].timestamp_claimed = 0
        /\ rows[obj[w].data.id].attempts = 0
        /\ Lookups(rows, obj[w].data.id)[w, TRUE]

\* C8: release(delay=d) with d > 0 at second T on a job the worker has
\* claimed, whose row has attempts = a, leaves the row with attempts = a + 1,
\* timestamp_claimed = 0, timestamp_after = T + d and timestamp_lastclaimed
\* as it was, and the Job object with is_claimed false
C8_ReleaseStep ==
    [][\A w \in Workers, delay \in Delays, claim_after \in ClaimAfters :
          LET j == obj[w].data.id
          IN  (release(w, delay, claim_after) /\ delay > 0
                  /\ outcome[w] = "claimed" /\ rows[j] # NoRow) =>
                  /\ rows'[j].attempts = rows[j].attempts + 1
                  /\ rows'[j].timestamp_claimed = 0
                  /\ rows'[j].timestamp_after = now + delay
                  /\ rows'[j].timestamp_lastclaimed = rows[j].timestamp_lastclaimed
                  /\ ~obj'[w].is_claimed]_vars

\* C9: every release() that follows a successful claim() raises the row's
\* attempts by one, so that k claim-release cycles without a finish() add
\* k to it
C9_AttemptsCountCycles ==
    [][\A w \in Workers, delay \in Delays, claim_after \in ClaimAfters :
          LET j == obj[w].data.id
          IN  (release(w, delay, claim_after) /\ outcome[w] = "claimed"
                  /\ rows[j] # NoRow) =>
                  rows'[j].attempts = rows[j].attempts + 1]_vars

\* the part of the delay policy on which C10 as stated and as amended agree:
\* a positive delay sets timestamp_after = now + delay whatever claim_after
\* is, and with no positive delay a claim_after of None leaves
\* timestamp_after alone and any other claim_after but the default is
\* written to it
DelayPolicy(j, delay, claim_after) ==
    /\ delay > 0 => rows'[j].timestamp_after = now + delay
    /\ (delay <= 0 /\ claim_after = None) =>
          rows'[j].timestamp_after = rows[j].timestamp_after
    /\ (delay <= 0 /\ claim_after \notin {None, release_defaults.claim_after}) =>
          rows'[j].timestamp_after = claim_after[1]

\* C10 as stated: ... and when the caller gives neither a positive delay nor
\* a claim_after (so that claim_after is its default), timestamp_after is
\* not set by the release
C10_DefaultLeavesAfterUnset ==
    [][\A w \in Workers, delay \in Delays, claim_after \in ClaimAfters :
          LET j == obj[w].data.id
          IN  (release(w, delay, claim_after) /\ rows[j] # NoRow) =>
                  /\ DelayPolicy(j, delay, claim_after)
                  /\ (delay <= 0 /\ claim_after = release_defaults.claim_after) =>
                        rows'[j].timestamp_after = rows[j].timestamp_after]_vars

\* C10 amended: ... and when the caller gives no positive delay and no
\* claim_after, claim_after is its default 0, which is not None, and the
\* release sets timestamp_after to 0
C10_ReleaseDelayPolicy ==
    [][\A w \in Workers, delay \in Delays, claim_after \in ClaimAfters :
          LET j == obj[w].data.id
          IN  (release(w, delay, claim_after) /\ rows[j] # NoRow) =>
                  /\ DelayPolicy(j, delay, claim_after)
                  /\ (delay <= 0 /\ claim_after = release_defaults.claim_after) =>
                        rows'[j].timestamp_after = 0]_vars

\* a worker loaded a row that held a timestamp_after, claimed it and
\* released it, and the release has set timestamp_after back to 0
C10_Witness ==
    \E w \in Workers :
        /\ outcome[w] = "released"
        /\ obj[w].data.timestamp_after # 0
        /\ obj[w].data.timestamp_claimed # 0
        /\ rows[obj[w].data.id] # NoRow
        /\ rows[obj[w].data.id].timestamp_after = 0

\* C11: no claim() succeeds at a second earlier than the row's
\* timestamp_after, and is_claimable() of a Job object that holds the row
\* as it is in the table is false at such a second
C11_NoClaimBeforeAfter ==
    [][\A w \in Workers :
          LET j == obj[w].data.id
          IN  /\ ClaimSucceeds(w) => now >= rows[j].timestamp_after
              /\ \A sub \in BOOLEAN :
                    (is_claimable(w, sub) /\ obj[w].data = rows[j]
                        /\ now < rows[j].timestamp_after) =>
                        outcome'[w] = "not claimable"]_vars

\* C12: is_claimable() returns true exactly when the Job object is not
\* claimed, not finished, and timestamp_lastclaimed < time.time() - interval
\* (compared in half seconds, time.time() being T or T and a fraction), and
\* it changes neither the table nor the Job object
C12_IsClaimableDefinition ==
    [][\A w \in Workers, sub \in BOOLEAN :
          is_claimable(w, sub) =>
              LET o == obj[w]
                  time2 == 2 * now + (IF sub THEN 1 ELSE 0)
              IN  /\ (outcome'[w] = "claimable") <=>
                        /\ ~o.is_claimed
                        /\ ~o.is_finished
                        /\ 2 * o.data.timestamp_lastclaimed
                              < time2 - 2 * o.data.interval
                  /\ outcome'[w] \in {"claimable", "not claimable"}
                  /\ rows' = rows
                  /\ obj' = obj]_vars

\* is_claimable() was false for an unclaimed, unfinished recurring job
\* whose last claim is less than an interval ago
C12_Witness ==
    \E w \in Workers :
        /\ outcome[w] = "not claimable"
        /\ ~obj[w].is_claimed
        /\ ~obj[w].is_finished
        /\ obj[w].data.interval > 0
        /\ obj[w].data.timestamp_lastclaimed > 0
        /\ obj[w].data.timestamp_lastclaimed > now - obj[w].data.interval

\* C13: the is_claimed flag of a Job object is true exactly when
\* timestamp_claimed is non-zero, in the object's data and, the row being
\* touched by no other worker, in its row of the table
C13_ClaimedIffTimestamp ==
    \A w \in Workers :
        obj[w] # NoJob =>
            LET j == obj[w].data.id
            IN  /\ obj[w].is_claimed <=> obj[w].data.timestamp_claimed # 0
                /\ rows[j] # NoRow =>
                      (obj[w].is_claimed <=> rows[j].timestamp_claimed # 0)

\* may worker w see row j of the table through a lookup
Visible(w, j, own) ==
    /\ rows[j] # NoRow
    /\ own => rows[j].instance \in {Wildcard, get_instance_id(w)}

\* C14: with own_instance_only, get_by_ID and get_by_remote_ID return a row
\* that matches the key and whose instance is the wildcard or the caller's,
\* and raise JobNotFoundException when there is none, whatever rows of
\* other instances match; without it they return a row that matches the
\* key, and raise JobNotFoundException only when no row matches
C14_LookupInstanceFilter ==
    [][/\ \A w \in Workers, j \in JobIds, own \in BOOLEAN :
             get_by_ID(w, j, own) =>
                 IF Visible(w, j, own)
                 THEN outcome'[w] = "found" /\ obj'[w] = Job(rows[j])
                 ELSE outcome'[w] = "JobNotFoundException" /\ obj' = obj
       /\ \A w \in Workers, remote_id \in RemoteIds, jobtype \in JobTypes,
             own \in BOOLEAN :
             get_by_remote_ID(w, remote_id, jobtype, own) =>
                 LET found == {j \in JobIds :
                                  /\ Visible(w, j, own)
                                  /\ remote_id_of(j) = remote_id
                                  /\ jobtype \in {"*", jobtype_of(j)}}
                 IN  IF found # {}
                     THEN /\ outcome'[w] = "found"
                          /\ \E j \in found : obj'[w] = Job(rows[j])
                     ELSE outcome'[w] = "JobNotFoundException" /\ obj' = obj]_vars

\* a lookup with own_instance_only raised JobNotFoundException while the
\* row exists, bound to another instance
C14_Witness ==
    \E w \in Workers, j \in JobIds :
        /\ outcome[w] = "JobNotFoundException"
        /\ rows[j] # NoRow
        /\ rows[j].instance \notin {Wildcard, get_instance_id(w)}

\* C15: the instance of a row is the wildcard or the instance of a worker
\* that holds the claim on it, so that a row inserted with the wildcard is,
\* once released or finished, again found by the own_instance_only lookups
\* of every instance
C15_InstanceIsHolderOrWildcard ==
    \A j \in JobIds :
        rows[j] # NoRow =>
            \/ rows[j].instance = Wildcard
            \/ \E w \in Holders(j) : rows[j].instance = get_instance_id(w)

\* C16: whenever claim() succeeds, the row was claimable just before it:
\* not claimed, not finished (there), and timestamp_lastclaimed <
\* time.time() - interval for the time.time() of some instant of the
\* second of the claim
C16_ClaimableBeforeClaim ==
    [][\A w \in Workers :
          ClaimSucceeds(w) =>
              LET row == rows[obj[w].data.id]
              IN  /\ row # NoRow
                  /\ row.timestamp_claimed = 0
                  /\ \E sub \in BOOLEAN :
                        earlier(row.timestamp_lastclaimed + row.interval,
                                now, sub)]_vars

\* C17: claim(), finish() and release() on a Job object with id j leave
\* every row with another id as it was, and is_claimable() and the lookups
\* leave every row as it was
C17_OneRowTouched ==
    [][\A w \in Workers :
          /\ (\/ claim(w)
              \/ \E delete \in BOOLEAN : finish(w, delete)
              \/ \E delay \in Delays, claim_after \in ClaimAfters :
                    release(w, delay, claim_after)) =>
                 \A j \in DOMAIN rows \ {obj[w].data.id} : rows'[j] = rows[j]
          /\ (\/ \E sub \in BOOLEAN : is_claimable(w, sub)
              \/ \E j \in DOMAIN rows, own \in BOOLEAN : get_by_ID(w, j, own)
              \/ \E remote_id \in RemoteIds, jobtype \in JobTypes,
                    own \in BOOLEAN :
                    get_by_remote_ID(w, remote_id, jobtype, own)) =>
                 rows' = rows]_vars

\* a worker has claimed one row while another row, released earlier, was
\* unclaimed, and that row is as the release left it
C17_Witness ==
    \E w \in Workers, j \in DOMAIN rows :
        /\ outcome[w] = "claimed"
        /\ obj[w].data.id # j
        /\ rows[obj[w].data.id] # NoRow
        /\ rows[obj[w].data.id].timestamp_claimed > 0
        /\ rows[j] # NoRow
        /\ rows[j].timestamp_claimed = 0
        /\ rows[j].attempts > 0
        /\ rows[j].instance = get_instance_id(w)

\* C18 as stated: is_claimable() is false for a Job object that holds, as
\* it is in the table, a one-shot row (interval = 0) claimed at an earlier
\* second (0 < timestamp_lastclaimed < now)
C18_OneShotClaimedOnce ==
    [][\A w \in Workers, sub \in BOOLEAN :
          (/\ is_claimable(w, sub)
           /\ obj[w].data = rows[obj[w].data.id]
           /\ obj[w].data.interval = 0
           /\ obj[w].data.timestamp_lastclaimed > 0
           /\ obj[w].data.timestamp_lastclaimed < now) =>
              outcome'[w] = "not claimable"]_vars

\* C18 amended: for a Job object that holds, as it is in the table, a
\* one-shot row last claimed before the current second (or never),
\* is_claimable() is true exactly when the row is not claimed now: a
\* one-shot row that was claimed and then released is claimable
C18_OneShotUnclaimedClaimable ==
    [][\A w \in Workers, sub \in BOOLEAN :
          (/\ is_claimable(w, sub)
           /\ obj[w].data = rows[obj[w].data.id]
           /\ obj[w].data.interval = 0
           /\ obj[w].data.timestamp_lastclaimed < now) =>
              (outcome'[w] = "claimable"
                  <=> rows[obj[w].data.id].timestamp_claimed = 0)]_vars

\* is_claimable() was true for a Job object loaded from a one-shot row
\* that had been claimed at an earlier second and released
C18_Witness ==
    \E w \in Workers :
        /\ outcome[w] = "claimable"
        /\ obj[w].data = rows[obj[w].data.id]
        /\ obj[w].data.interval = 0
        /\ obj[w].data.timestamp_lastclaimed > 0
        /\ obj[w].data.timestamp_lastclaimed < now
        /\ obj[w].data.attempts > 0

\* C19: when every worker calls claim() only after is_claimable() returned
\* true, no successful claim() of a recurring job writes the claim
\* timestamp that the claim before it wrote: a worker whose is_claimable()
\* was true before another worker claimed and finished the job does not
\* claim it within the same interval
C19_NoSecondClaimInInterval ==
    [][\A w \in Workers :
          (ClaimSucceeds(w) /\ obj[w].data.interval > 0) =>
              rows'[obj[w].data.id].timestamp_claimed
                  # rows[obj[w].data.id].timestamp_lastclaimed]_vars

\* C20: a successful claim() of a job with interval I > 0, made by a worker
\* for whose Job object is_claimable() returned true and whose Job object
\* still holds the row as it is in the table, writes a positive multiple
\* of I that is at least I greater than the claim timestamp written before
C20_SnappedClaimsRespectPeriod ==
    [][\A w \in Workers :
          (/\ ClaimSucceeds(w)
           /\ outcome[w] = "claimable"
           /\ obj[w].data = rows[obj[w].data.id]
           /\ obj[w].data.interval > 0) =>
              LET I == obj[w].data.interval
                  earlier_claim == rows[obj[w].data.id].timestamp_lastclaimed
                  later_claim == rows'[obj[w].data.id].timestamp_claimed
              IN  /\ \E k \in 1..now : later_claim = k * I
                  /\ later_claim >= earlier_claim + I]_vars

\* a worker has claimed a recurring job of interval 2 or more that it had
\* loaded after another instance's claim, an interval or more after that
\* claim
C20_Witness ==
    \E w \in Workers :
        /\ outcome[w] = "claimed"
        /\ obj[w].data.interval > 1
        /\ obj[w].data.instance \notin {Wildcard, get_instance_id(w)}
        /\ obj[w].data.timestamp_claimed >= 2 * obj[w].data.interval
        /\ rows[obj[w].data.id].timestamp_claimed = obj[w].data.timestamp_claimed
        /\ rows[obj[w].data.id].instance = get_instance_id(w)

\* C21: once finish() has deleted the row of a job, every claim() on a Job
\* object for that job raises JobClaimedException and leaves the object
\* unclaimed, and every claim(), release() or finish() on such an object
\* leaves the table without the row
C21_DeletedNeverResurrected ==
    [][\A w \in Workers :
          (obj[w] # NoJob /\ rows[obj[w].data.id] = NoRow) =>
              /\ claim(w) =>
                    /\ outcome'[w] = "JobClaimedException"
                    /\ obj'[w].is_claimed = obj[w].is_claimed
              /\ (\/ claim(w)
                  \/ \E delete \in BOOLEAN : finish(w, delete)
                  \/ \E delay \in Delays, claim_after \in ClaimAfters :
                        release(w, delay, claim_after)) =>
                    rows'[obj[w].data.id] = NoRow]_vars

\* the row is deleted; the worker that finished the one-shot job has since
\* called release() on its Job object, and the claim() of another worker
\* on its own Job object has raised JobClaimedException
C21_Witness ==
    \E v \in Workers, w \in Workers :
        /\ w # v
        /\ outcome[v] = "released"
        /\ obj[v].is_finished
        /\ obj[v].data.interval = 0
        /\ rows[obj[v].data.id] = NoRow
        /\ outcome[w] = "JobClaimedException"
        /\ obj[w].data.id = obj[v].data.id
        /\ ~obj[w].is_claimed
=============================================================================
